---- MODULE Spec2Model ----
(***************************************************************************)
(* Usage Monitor for Claude: the tray application's adaptive poll loop,    *)
(* update(), the menu handlers and the crash handlers of                   *)
(* src/usage_monitor_for_claude.py.                                        *)
(*                                                                         *)
(* Units.  Utilization percentages are floats in the program; here they    *)
(* are integers in tenths of a percent (95.5 % is 955, the literal 95 of   *)
(* the source is 950).  A resets_at timestamp is held as its distance from *)
(* "now" at the moment poll_loop evaluates it, in tenths of a second       *)
(* (170.5 s is 1705), so that int() of line 827 has something to truncate. *)
(* Poll intervals are whole seconds, as in the source.                     *)
(***************************************************************************)
EXTENDS Integers, Sequences, FiniteSets, TLC

\* ---- configuration (lines 33-36) ----
POLL_INTERVAL == 120
POLL_FAST == 60
POLL_FAST_EXTRA == 2
POLL_ERROR == 30

\* ---- bound of the model ----
\* how many user events (manual refreshes, popup requests, theme changes) one
\* behaviour holds
MaxEvents == 2
\* how far the clock runs while elapsed_pct is called again and again
MaxClock == 12

Max(a, b) == IF a >= b THEN a ELSE b

\* Python's None / a present value
None == <<>>
Some(v) == <<v>>
Val(o) == o[1]

\* ---- UsageSnapshot: what fetch_usage() returns ----
NoReset == [tag |-> "none"]
BadReset == [tag |-> "bad"]
At(ds) == [tag |-> "at", ds |-> ds]

\* a period entry {utilization, resets_at}; Absent is a key the mapping lacks
Absent == <<>>
Entry(u, r) == <<[utilization |-> u, resets_at |-> r]>>

UsageBody(e5, e7, es, eo) ==
    [kind |-> "usage", error |-> "", auth_error |-> FALSE,
     five_hour |-> e5, seven_day |-> e7, seven_day_sonnet |-> es, seven_day_opus |-> eo]

ErrorBody(msg, auth) ==
    [kind |-> "error", error |-> msg, auth_error |-> auth,
     five_hour |-> Absent, seven_day |-> Absent, seven_day_sonnet |-> Absent, seven_day_opus |-> Absent]

\* a response body update() cannot read: resp.json() (line 139) is returned as it
\* is, and a body that is no mapping of records (a JSON list, "five_hour": null)
\* makes .get(...).get(...) of line 764 raise AttributeError
MalformedBody ==
    [kind |-> "malformed", error |-> "", auth_error |-> FALSE,
     five_hour |-> Absent, seven_day |-> Absent, seven_day_sonnet |-> Absent, seven_day_opus |-> Absent]

\* self.usage_data = {} of __init__
EmptyBody == UsageBody(Absent, Absent, Absent, Absent)

\* the four error records of fetch_usage
ErrorBodies ==
    {ErrorBody("no_token", FALSE), ErrorBody("connection_error", FALSE),
     ErrorBody("http_error", FALSE), ErrorBody("auth_expired", TRUE)}

\* 'error' in data
HasError(d) == d.kind = "error"

\* data.get(key, {}).get('utilization', 0) or 0
Pct(d, key) ==
    LET e == d[key]
    IN  IF e = Absent THEN 0
        ELSE IF Val(e).utilization = None THEN 0
        ELSE Val(Val(e).utilization)

\* update() raises on this body (line 764)
Raises(d) == d.kind = "malformed"

PeriodKeys == <<"five_hour", "seven_day", "seven_day_sonnet", "seven_day_opus">>

\* the loop of _seconds_until_next_reset from key number k on
RECURSIVE EarliestFrom(_, _, _)
EarliestFrom(d, k, earliest) ==
    IF k > Len(PeriodKeys) THEN earliest
    ELSE LET e == d[PeriodKeys[k]]
         IN  IF e = Absent \/ Val(e).resets_at.tag # "at"
             THEN EarliestFrom(d, k + 1, earliest)
             ELSE LET seconds == Val(e).resets_at.ds
                  IN  IF seconds > 0 /\ (earliest = None \/ seconds < Val(earliest))
                      THEN EarliestFrom(d, k + 1, Some(seconds))
                      ELSE EarliestFrom(d, k + 1, earliest)

FirstPositiveReset(d) ==
    LET Rs == {k \in 1..Len(PeriodKeys) :
                 /\ d[PeriodKeys[k]] # Absent
                 /\ Val(d[PeriodKeys[k]]).resets_at.tag = "at"
                 /\ Val(d[PeriodKeys[k]]).resets_at.ds > 0}
    IN  IF Rs = {} THEN None
        ELSE Some(Val(d[PeriodKeys[CHOOSE k \in Rs : \A j \in Rs : k <= j]]).resets_at.ds)

seconds_until_next_reset(d) == EarliestFrom(d, 1, None)

\* ---- presentation ----
\* lines 361-373: the text, centred, in the dim colour of the theme; no bars
create_status_image(text, light) ==
    [img |-> "status", text |-> text, bar1 |-> 0, bar2 |-> 0, light |-> light]

\* int(): a quotient truncated toward zero
IntTrunc(n, d) == IF n >= 0 THEN n \div d ELSE 0 - ((0 - n) \div d)

\* f'{x:.0f}' of x = p / 10, p >= 0: the nearest whole number, a tie going to
\* the even one, in decimal digits
RoundHalfEven(p) ==
    LET q == p \div 10
        r == p % 10
    IN  IF r < 5 THEN q
        ELSE IF r > 5 THEN q + 1
        ELSE IF q % 2 = 0 THEN q ELSE q + 1

Digits == <<"0", "1", "2", "3", "4", "5", "6", "7", "8", "9">>

RECURSIVE Decimal(_)
Decimal(n) == IF n < 10 THEN Digits[n + 1] ELSE Decimal(n \div 10) \o Digits[(n % 10) + 1]

TopTextFromFifty(pct_5h) ==
    IF pct_5h >= 1000 THEN "X"
    ELSE IF pct_5h >= 500 THEN Decimal(RoundHalfEven(pct_5h))
    ELSE "C"

\* lines 332-340: the top text; "X" stands for the cross '✕'
TopText(pct_5h) ==
    IF pct_5h >= 1000 THEN "X"
    ELSE IF pct_5h > 500 THEN Decimal(RoundHalfEven(pct_5h))
    ELSE "C"

\* the width of the canvas (line 328)
S == 64

fill_w_rounded(pct) == Max(0, IF (S * pct + 500) \div 1000 <= S THEN (S * pct + 500) \div 1000 ELSE S)

fill_w_whole_percent(pct) == Max(0, IF IntTrunc(S * IntTrunc(pct, 10), 100) <= S THEN IntTrunc(S * IntTrunc(pct, 10), 100) ELSE S)

\* line 353: fill_w = max(0, min(S, int(S * pct / 100)))
fill_w(pct) ==
    LET w == IntTrunc(S * pct, 1000)
    IN  Max(0, IF w <= S THEN w ELSE S)

\* lines 323-358: the top text and the filled widths of the two bars, in the
\* colours of the theme
create_icon_image(p5, p7, light) ==
    [img |-> "usage", text |-> TopText(p5), bar1 |-> fill_w(p5), bar2 |-> fill_w(p7), light |-> light]

\* the utilization a tooltip line shows for a period, None when the line is left out
ShownUtil(d, key) ==
    LET e == d[key] IN IF e = Absent THEN None ELSE Val(e).utilization

\* format_tooltip, without the reset-time text
format_tooltip(d) ==
    IF HasError(d)
    THEN IF d.auth_error THEN [tip |-> "auth_expired", err |-> "", u5 |-> None, u7 |-> None]
         ELSE [tip |-> "error", err |-> d.error, u5 |-> None, u7 |-> None]
    ELSE [tip |-> "usage", err |-> "", u5 |-> ShownUtil(d, "five_hour"), u7 |-> ShownUtil(d, "seven_day")]

\* the icon of update()'s error branch (line 760) and of _on_theme_changed (745)
ErrorIcon(d, light) == create_status_image(IF d.auth_error THEN "C!" ELSE "!", light)

\* ---- update(): the notification rules (lines 768, 770) ----
NotifyAlways5h(p5prev, p5, p7) == p5prev # None /\ Val(p5prev) > 950 /\ p5 < Val(p5prev)

Notify5h(p5prev, p5, p7) ==
    p5prev # None /\ Val(p5prev) > 950 /\ p5 < Val(p5prev) /\ p7 < 990

Notify7dWithoutDrop(p7prev, p7, p5) == p7prev # None /\ Val(p7prev) > 980 /\ p5 < 990

Notify7d(p7prev, p7, p5) ==
    p7prev # None /\ Val(p7prev) > 980 /\ p7 < Val(p7prev) /\ p5 < 990

NotifyCalls(p5prev, p7prev, p5, p7) ==
    (IF Notify5h(p5prev, p5, p7) THEN {"5h"} ELSE {})
      \cup (IF Notify7d(p7prev, p7, p5) THEN {"7d"} ELSE {})

\* ---- update(): adaptive polling (lines 774-777) ----
TrendRisingOrFlat(p5prev, p5) == p5prev # None /\ p5 >= Val(p5prev)

\* line 774: self._prev_5h is not None and pct_5h > self._prev_5h
TrendRising(p5prev, p5) == p5prev # None /\ p5 > Val(p5prev)

DecrementedFastKept(f) == f

\* line 777: self._fast_polls_remaining -= 1
DecrementedFast(f) == f - 1

\* ---- poll_loop: interval selection (lines 814-819, 825-828) ----
BaseIntervalErrorAsFast(d, f) ==
    IF f > 0 THEN POLL_FAST ELSE POLL_INTERVAL

BaseInterval(d, f) ==
    IF HasError(d) THEN POLL_ERROR
    ELSE IF f > 0 THEN POLL_FAST
    ELSE POLL_INTERVAL

\* next_reset is not None and next_reset + 5 <= interval * 1.5
ResetImminent(nr, iv) == nr # None /\ Val(nr) + 50 <= iv * 15

\* max(int(next_reset) + 5, POLL_FAST)
AlignedInterval(nr) == Max(Val(nr) \div 10 + 5, POLL_FAST)

\* ---- api_headers and fetch_usage (lines 109-148) ----
\* what the credentials file holds: no file; a file read_text cannot read; text
\* that is no JSON; JSON that is no object (a list); an object without
\* 'claudeAiOauth'; "claudeAiOauth": null; an object without 'accessToken';
\* "accessToken": ""; a token
CredentialShapes ==
    {"missing", "unreadable", "not_json", "not_object", "no_oauth", "oauth_null",
     "no_access_token", "empty_token", "token"}

\* api_headers: None, the headers, or "raise" where an exception other than
\* JSONDecodeError and KeyError leaves it (OSError of read_text, AttributeError
\* of .get on a list or on None)
api_headers(creds) ==
    CASE creds = "missing" -> None
      [] creds = "unreadable" -> Some("raise")
      [] creds = "not_json" -> None
      [] creds = "not_object" -> Some("raise")
      [] creds = "no_oauth" -> None
      [] creds = "oauth_null" -> Some("raise")
      [] creds = "no_access_token" -> None
      [] creds = "empty_token" -> None
      [] creds = "token" -> Some("headers")

\* what requests.get does: raises ConnectionError, raises another exception
\* (a read timeout), or answers with a status code and a body that is JSON or not
HttpCodes == {200, 204, 400, 401, 403, 404, 429, 500, 503}
NetOutcomes ==
    {[kind |-> "connection_error", code |-> 0, json |-> FALSE],
     [kind |-> "read_timeout", code |-> 0, json |-> FALSE]}
    \cup {[kind |-> "response", code |-> c, json |-> j] : c \in HttpCodes, j \in BOOLEAN}

\* the usage body a 2xx answer carries in the model
OkBody == UsageBody(Entry(Some(370), At(36000)), Entry(Some(600), At(900000)), Absent, Absent)

\* what a call of fetch_usage comes to: the record returned (or the exception
\* raised), the status code an http_error message carries, the requests made
Returned(body, code, requests) == [raised |-> FALSE, body |-> body, code |-> code, requests |-> requests]
Raised == [raised |-> TRUE, body |-> EmptyBody, code |-> 0, requests |-> 0]

\* lines 130-148.  api_headers() is called outside the try (line 132);
\* raise_for_status raises HTTPError for 400..599; resp.json() of a body that is
\* no JSON raises inside the try and ends in the last handler
fetch_usage(creds, net) ==
    LET headers == api_headers(creds)
    IN  IF headers = Some("raise") THEN Raised
        ELSE IF headers = None THEN Returned(ErrorBody("no_token", FALSE), 0, 0)
        ELSE IF net.kind = "connection_error" THEN Returned(ErrorBody("connection_error", FALSE), 0, 1)
        ELSE IF net.kind = "read_timeout" THEN Returned(ErrorBody("connection_error", FALSE), 0, 1)
        ELSE IF net.code >= 400 /\ net.code < 600
             THEN IF net.code = 401 THEN Returned(ErrorBody("auth_expired", TRUE), 0, 1)
                  ELSE Returned(ErrorBody("http_error", FALSE), net.code, 1)
        ELSE IF net.json THEN Returned(OkBody, 0, 1)
        ELSE Returned(ErrorBody("connection_error", FALSE), 0, 1)

\* ---- elapsed_pct (lines 169-196) ----
\* Here a resets_at of At(t) is the instant t of a clock in whole seconds, and
\* now is that clock's reading.  The float returned is held exactly, as the
\* numerator of a fraction over period_seconds (num / period_seconds percent).
elapsed_pct_unclamped(resets_at, period_seconds, now) ==
    IF resets_at = NoReset \/ period_seconds <= 0 THEN None
    ELSE IF resets_at.tag # "at" THEN None
    ELSE Some(100 * (period_seconds - (resets_at.ds - now)))

\* `not resets_at` is NoReset (None or ''); a string fromisoformat rejects, or
\* one without a UTC offset (reset - now raises TypeError), is BadReset
elapsed_pct(resets_at, period_seconds, now) ==
    IF resets_at = NoReset \/ period_seconds <= 0 THEN None
    ELSE IF resets_at.tag # "at" THEN None
    ELSE LET remaining == resets_at.ds - now
             elapsed == period_seconds - remaining
             full == 100 * period_seconds
         IN  Some(Max(0, IF 100 * elapsed <= full THEN 100 * elapsed ELSE full))

\* ---- what the usage API answers in the model ----
\* utilization values around the thresholds 95 / 98 / 99 of update()
U5Wide == {None, Some(800), Some(955), Some(990)}
U7Wide == {None, Some(700), Some(985), Some(990), Some(995)}

\* resets_at of five_hour, seven_day, seven_day_sonnet, seven_day_opus
ResetShapes ==
    {<<NoReset, NoReset, NoReset, NoReset>>,
     <<At(36000), At(900000), NoReset, NoReset>>,
     <<At(1705), At(36000), NoReset, NoReset>>,
     <<At(0 - 30), At(852), NoReset, NoReset>>,
     <<At(850), At(36000), At(850), NoReset>>,
     <<At(0), At(36000), BadReset, At(207)>>}

ResetOnly(r) == IF r = NoReset THEN Absent ELSE Entry(None, r)

WideUsageBodies ==
    {UsageBody(Entry(u5, s[1]), Entry(u7, s[2]), ResetOnly(s[3]), ResetOnly(s[4])) :
        u5 \in U5Wide, u7 \in U7Wide, s \in ResetShapes}
    \cup {UsageBody(Absent, Entry(u7, s[2]), ResetOnly(s[3]), ResetOnly(s[4])) :
        u7 \in U7Wide, s \in ResetShapes}

WideApi == WideUsageBodies \cup ErrorBodies \cup {MalformedBody}

\* a body with the given percentages and the next reset an hour away
PlainBody(p5, p7) == UsageBody(Entry(Some(p5), At(36000)), Entry(Some(p7), At(900000)), Absent, Absent)

NarrowApi ==
    {PlainBody(100, 500), PlainBody(200, 500), PlainBody(300, 500),
     UsageBody(Entry(Some(300), At(852)), Entry(Some(500), At(900000)), Absent, Absent),
     ErrorBody("connection_error", FALSE), ErrorBody("auth_expired", TRUE),
     MalformedBody}

\* ---- state ----
VARIABLES
    running, usage_data, profile_data,           \* UsageMonitorForClaude fields
    prev_5h, prev_7d, fast_polls_remaining,      \* the trend state
    popup_open, light_taskbar,
    icon, title, icon_running,                   \* the pystray icon: image, tooltip, run loop
    pc,                                          \* position of the poll thread and of the refresh thread
    pct_5h, pct_7d,                              \* update()'s locals, per thread
    interval, i,                                 \* poll_loop's locals
    ppc,                                         \* position of each popup thread
    mainpc, msgbox,                              \* the main thread; the crash message box
    fetched, tick0, notes,                       \* history: per update() call
    scen, fq, sq,                                \* history: the scenario, after-quit counters
    aligned,                                     \* history: the next_reset the last tick aligned to
    refreshes, popups, themes,                   \* how many user events happened
    call                                         \* one call of a module-level function: arguments, result

app == <<running, usage_data, profile_data, popup_open, light_taskbar>>
trend == <<prev_5h, prev_7d, fast_polls_remaining>>
tray == <<icon, title, icon_running>>
locals == <<pct_5h, pct_7d, interval, i>>
others == <<ppc, mainpc, msgbox>>
hist == <<fetched, tick0, notes, scen, fq, sq, aligned>>
events == <<refreshes, popups, themes>>
vars == <<app, trend, tray, pc, locals, others, hist, events, call>>

UThreads == {"poll", "refresh"}
PopupIds == 1..MaxEvents

TrendNow == [prev_5h |-> prev_5h, prev_7d |-> prev_7d, fast |-> fast_polls_remaining]

\* ---- history: the scenario 10, 20, 30, 30, 30, ... with no reset imminent ----
ScenOff == "off"
NoImminent(b) == ~ResetImminent(seconds_until_next_reset(b), POLL_INTERVAL)

\* "s10", "s20", "s30": the tick showed 10, 20, 30 in a row; "flat1".."flat3":
\* that many ticks of 30 followed; "flat4": four or more did
ScenNext(s, b) ==
    IF b.kind # "usage" \/ ~NoImminent(b) THEN ScenOff
    ELSE IF Pct(b, "five_hour") = 100 THEN "s10"
    ELSE IF s = "s10" /\ Pct(b, "five_hour") = 200 THEN "s20"
    ELSE IF s = "s20" /\ Pct(b, "five_hour") = 300 THEN "s30"
    ELSE IF Pct(b, "five_hour") # 300 THEN ScenOff
    ELSE IF s = "s30" THEN "flat1"
    ELSE IF s = "flat1" THEN "flat2"
    ELSE IF s = "flat2" THEN "flat3"
    ELSE IF s \in {"flat3", "flat4"} THEN "flat4"
    ELSE ScenOff

Cap2(n) == IF n >= 2 THEN 2 ELSE n

\* no module-level function is being followed
NoCall == [op |-> "none"]

\* ---- initial states ----
\* the state __init__ leaves (lines 688-695), the poll thread about to run poll_loop
InitApp ==
    /\ running = TRUE
    /\ usage_data = EmptyBody
    /\ profile_data = None
    /\ prev_5h = None /\ prev_7d = None /\ fast_polls_remaining = 0
    /\ popup_open = FALSE
    /\ light_taskbar \in BOOLEAN
    /\ icon = create_icon_image(0, 0, light_taskbar)
    /\ title = [tip |-> "loading", err |-> "", u5 |-> None, u7 |-> None]
    /\ icon_running = TRUE
    /\ pc = [t \in UThreads |-> IF t = "poll" THEN "p811" ELSE "idle"]
    /\ pct_5h = [t \in UThreads |-> 0] /\ pct_7d = [t \in UThreads |-> 0]
    /\ interval = 0 /\ i = 0
    /\ ppc = [k \in PopupIds |-> "idle"]
    /\ mainpc = "run" /\ msgbox = "none"
    /\ fetched = [t \in UThreads |-> EmptyBody]
    /\ tick0 = [prev_5h |-> None, prev_7d |-> None, fast |-> 0]
    /\ notes = [t \in UThreads |-> {}]
    /\ scen = "start" /\ fq = 0 /\ sq = 0 /\ aligned = None
    /\ refreshes = 0 /\ popups = 0 /\ themes = 0

Init == InitApp /\ call = NoCall

\* the trend states the poll loop can be in when a tick starts: none recorded
\* yet, or the percentages of the last usage tick with 0..3 fast polls left
\* (3 only after an increase, so not with a previous 5h percentage of 0)
PriorTrends ==
    {[prev_5h |-> None, prev_7d |-> None, fast |-> 0]}
    \cup {tr \in {[prev_5h |-> Some(a), prev_7d |-> Some(b), fast |-> f] :
                    a \in {0, 800, 950, 955}, b \in {0, 980, 985, 1000},
                    f \in 0..(POLL_FAST_EXTRA + 1)} :
            tr.fast = POLL_FAST_EXTRA + 1 => Val(tr.prev_5h) > 0}

\* the poll loop at the start of a tick (the loop test of line 812 just passed),
\* the last tick having shown the percentages the trend state records
InitTick ==
    /\ running = TRUE
    /\ \E tr \in PriorTrends :
         /\ prev_5h = tr.prev_5h /\ prev_7d = tr.prev_7d /\ fast_polls_remaining = tr.fast
         /\ usage_data = IF tr.prev_5h = None THEN ErrorBody("connection_error", FALSE)
                         ELSE UsageBody(Entry(tr.prev_5h, NoReset), Entry(tr.prev_7d, NoReset), Absent, Absent)
         /\ tick0 = tr
    /\ profile_data = None
    /\ popup_open = FALSE
    /\ light_taskbar = FALSE
    /\ icon = IF HasError(usage_data) THEN ErrorIcon(usage_data, light_taskbar)
              ELSE create_icon_image(Pct(usage_data, "five_hour"), Pct(usage_data, "seven_day"), light_taskbar)
    /\ title = format_tooltip(usage_data)
    /\ icon_running = TRUE
    /\ pc = [t \in UThreads |-> IF t = "poll" THEN "u757" ELSE "idle"]
    /\ pct_5h = [t \in UThreads |-> 0] /\ pct_7d = [t \in UThreads |-> 0]
    /\ interval = 0 /\ i = 0
    /\ ppc = [k \in PopupIds |-> "idle"]
    /\ mainpc = "run" /\ msgbox = "none"
    /\ fetched = [t \in UThreads |-> usage_data]
    /\ notes = [t \in UThreads |-> {}]
    /\ scen = ScenOff /\ fq = 0 /\ sq = 0 /\ aligned = None
    /\ refreshes = 0 /\ popups = 0 /\ themes = 0
    /\ call = NoCall

\* ---- update(), run by thread t (the poll thread, or a manual refresh's thread) ----
\* where update() returns to: poll_loop's line 814, or the end of the refresh thread
Return(t) == IF t = "poll" THEN "p814" ELSE "idle"
\* where an exception leaves t: the handler of _on_icon_ready (line 845); a
\* refresh thread just dies
Raise(t) == IF t = "poll" THEN "p845" ELSE "idle"

\* line 757: self.usage_data = fetch_usage()
UpdateFetch(t, api) ==
    /\ pc[t] = "u757"
    /\ \E b \in api :
         /\ usage_data' = b
         /\ fetched' = [fetched EXCEPT ![t] = b]
         /\ scen' = IF t = "poll" THEN ScenNext(scen, b) ELSE scen
    /\ pc' = [pc EXCEPT ![t] = "u759"]
    /\ tick0' = IF t = "poll" THEN TrendNow ELSE tick0
    /\ notes' = [notes EXCEPT ![t] = {}]
    /\ fq' = IF t = "poll" /\ ~running THEN Cap2(fq + 1) ELSE fq
    /\ UNCHANGED <<call, aligned, running, profile_data, popup_open, light_taskbar, trend, tray, locals, others, sq, events>>

\* line 759: if 'error' in self.usage_data
UpdateErrorCheck(t) ==
    /\ pc[t] = "u759"
    /\ pc' = [pc EXCEPT ![t] = IF HasError(usage_data) THEN "u760" ELSE "u764"]
    /\ UNCHANGED <<call, aligned, app, trend, tray, locals, others, fetched, tick0, notes, scen, fq, sq, events>>

\* lines 760-762: the status icon and the tooltip of the error, then return.
\* A body without 'error' read here (another thread replaced it) has no
\* auth_error either, and its tooltip is the usage tooltip; a malformed one
\* makes format_tooltip raise.
UpdateErrorRender(t) ==
    /\ pc[t] = "u760"
    /\ IF Raises(usage_data)
       THEN /\ icon' = ErrorIcon(usage_data, light_taskbar)
            /\ UNCHANGED title
            /\ pc' = [pc EXCEPT ![t] = Raise(t)]
       ELSE /\ icon' = ErrorIcon(usage_data, light_taskbar)
            /\ title' = format_tooltip(usage_data)
            /\ pc' = [pc EXCEPT ![t] = Return(t)]
    /\ UNCHANGED <<call, aligned, app, trend, icon_running, locals, others, fetched, tick0, notes, scen, fq, sq, events>>

\* lines 764-765: pct_5h and pct_7d, read from self.usage_data
UpdatePercentages(t) ==
    /\ pc[t] = "u764"
    /\ IF Raises(usage_data)
       THEN /\ pc' = [pc EXCEPT ![t] = Raise(t)]
            /\ UNCHANGED <<pct_5h, pct_7d>>
       ELSE /\ pct_5h' = [pct_5h EXCEPT ![t] = Pct(usage_data, "five_hour")]
            /\ pct_7d' = [pct_7d EXCEPT ![t] = Pct(usage_data, "seven_day")]
            /\ pc' = [pc EXCEPT ![t] = "u768"]
    /\ UNCHANGED <<call, aligned, app, trend, tray, interval, i, others, fetched, tick0, notes, scen, fq, sq, events>>

\* lines 768-771: the two quota-reset notifications
UpdateNotify(t) ==
    /\ pc[t] = "u768"
    /\ notes' = [notes EXCEPT ![t] = NotifyCalls(prev_5h, prev_7d, pct_5h[t], pct_7d[t])]
    /\ pc' = [pc EXCEPT ![t] = "u774"]
    /\ UNCHANGED <<call, aligned, app, trend, tray, locals, others, fetched, tick0, scen, fq, sq, events>>

\* lines 774-779: the trend update, a statement at a time: another thread
\* running update() can act between the test of line 776 and the decrement
\* line 774: if self._prev_5h is not None and pct_5h > self._prev_5h
UpdateTrendTest(t) ==
    /\ pc[t] = "u774"
    /\ pc' = [pc EXCEPT ![t] = IF TrendRising(prev_5h, pct_5h[t]) THEN "u775" ELSE "u776"]
    /\ UNCHANGED <<call, aligned, app, trend, tray, locals, others, fetched, tick0, notes, scen, fq, sq, events>>

\* line 775: self._fast_polls_remaining = POLL_FAST_EXTRA + 1
UpdateTrendRestart(t) ==
    /\ pc[t] = "u775"
    /\ fast_polls_remaining' = POLL_FAST_EXTRA + 1
    /\ pc' = [pc EXCEPT ![t] = "u778"]
    /\ UNCHANGED <<call, aligned, app, prev_5h, prev_7d, tray, locals, others, fetched, tick0, notes, scen, fq, sq, events>>

\* line 776: elif self._fast_polls_remaining > 0
UpdateTrendTestFast(t) ==
    /\ pc[t] = "u776"
    /\ pc' = [pc EXCEPT ![t] = IF fast_polls_remaining > 0 THEN "u777" ELSE "u778"]
    /\ UNCHANGED <<call, aligned, app, trend, tray, locals, others, fetched, tick0, notes, scen, fq, sq, events>>

\* line 777: self._fast_polls_remaining -= 1
UpdateTrendDecrement(t) ==
    /\ pc[t] = "u777"
    /\ fast_polls_remaining' = DecrementedFast(fast_polls_remaining)
    /\ pc' = [pc EXCEPT ![t] = "u778"]
    /\ UNCHANGED <<call, aligned, app, prev_5h, prev_7d, tray, locals, others, fetched, tick0, notes, scen, fq, sq, events>>

\* lines 778-779: self._prev_5h = pct_5h; self._prev_7d = pct_7d
UpdateTrendPrev(t) ==
    /\ pc[t] = "u778"
    /\ prev_5h' = Some(pct_5h[t])
    /\ prev_7d' = Some(pct_7d[t])
    /\ pc' = [pc EXCEPT ![t] = "u781"]
    /\ UNCHANGED <<call, aligned, app, fast_polls_remaining, tray, locals, others, fetched, tick0, notes, scen, fq, sq, events>>

\* lines 781-782: the usage icon from the locals, the tooltip from self.usage_data
UpdateRender(t) ==
    /\ pc[t] = "u781"
    /\ icon' = create_icon_image(pct_5h[t], pct_7d[t], light_taskbar)
    /\ IF Raises(usage_data)
       THEN /\ UNCHANGED title
            /\ pc' = [pc EXCEPT ![t] = Raise(t)]
       ELSE /\ title' = format_tooltip(usage_data)
            /\ pc' = [pc EXCEPT ![t] = Return(t)]
    /\ pct_5h' = [pct_5h EXCEPT ![t] = 0]
    /\ pct_7d' = [pct_7d EXCEPT ![t] = 0]
    /\ UNCHANGED <<call, aligned, app, trend, icon_running, interval, i, others, fetched, tick0, notes, scen, fq, sq, events>>

\* ---- poll_loop ----
\* lines 814-819: the base interval
PollBaseInterval ==
    /\ pc["poll"] = "p814"
    /\ interval' = BaseInterval(usage_data, fast_polls_remaining)
    /\ pc' = [pc EXCEPT !["poll"] = "p825"]
    /\ UNCHANGED <<call, aligned, app, trend, tray, pct_5h, pct_7d, i, others, fetched, tick0, notes, scen, fq, sq, events>>

\* lines 825-830: the reset alignment, then the sleep loop starts.  A malformed
\* body read here makes _seconds_until_next_reset raise (entry.get, line 790).
PollAlign ==
    /\ pc["poll"] = "p825"
    /\ IF Raises(usage_data)
       THEN /\ pc' = [pc EXCEPT !["poll"] = "p845"]
            /\ UNCHANGED <<interval, fast_polls_remaining, aligned>>
       ELSE /\ LET next_reset == seconds_until_next_reset(usage_data)
               IN  IF ResetImminent(next_reset, interval)
                   THEN /\ interval' = AlignedInterval(next_reset)
                        /\ fast_polls_remaining' = Max(fast_polls_remaining, 2)
                        /\ aligned' = next_reset
                   ELSE /\ UNCHANGED <<interval, fast_polls_remaining>>
                        /\ aligned' = None
            /\ pc' = [pc EXCEPT !["poll"] = "p830"]
    /\ i' = 0
    /\ UNCHANGED <<call, app, prev_5h, prev_7d, tray, pct_5h, pct_7d, others, fetched, tick0, notes, scen, fq, sq, events>>

\* ---- one tick of the poll loop, from every trend state, over the wide API ----
TickFetch == UpdateFetch("poll", WideApi)
TickErrorCheck == UpdateErrorCheck("poll")
TickErrorRender == UpdateErrorRender("poll")
TickPercentages == UpdatePercentages("poll")
TickNotify == UpdateNotify("poll")
TickTrendTest == UpdateTrendTest("poll")
TickTrendRestart == UpdateTrendRestart("poll")
TickTrendTestFast == UpdateTrendTestFast("poll")
TickTrendDecrement == UpdateTrendDecrement("poll")
TickTrendPrev == UpdateTrendPrev("poll")
TickRender == UpdateRender("poll")

NextTick ==
    \/ TickFetch \/ TickErrorCheck \/ TickErrorRender \/ TickPercentages
    \/ TickNotify \/ TickRender
    \/ TickTrendTest \/ TickTrendRestart \/ TickTrendTestFast \/ TickTrendDecrement \/ TickTrendPrev
    \/ PollBaseInterval \/ PollAlign

SpecTick == InitTick /\ [][NextTick]_vars

\* ---- the poll thread: _on_icon_ready and poll_loop ----
\* line 811: self.profile_data = fetch_profile()
PollFetchProfile ==
    /\ pc["poll"] = "p811"
    /\ profile_data' \in {None, Some("profile")}
    /\ pc' = [pc EXCEPT !["poll"] = "p812"]
    /\ fq' = IF ~running THEN Cap2(fq + 1) ELSE fq
    /\ UNCHANGED <<call, aligned, running, usage_data, popup_open, light_taskbar, trend, tray, locals, others,
                   fetched, tick0, notes, scen, sq, events>>

\* line 812: while self.running
PollLoopTest ==
    /\ pc["poll"] = "p812"
    /\ pc' = [pc EXCEPT !["poll"] = IF running THEN "u757" ELSE "done"]
    /\ UNCHANGED <<call, aligned, app, trend, tray, locals, others, fetched, tick0, notes, scen, fq, sq, events>>

PollSleepCheckNoBreak ==
    /\ pc["poll"] = "p830"
    /\ pc' = [pc EXCEPT !["poll"] = IF i < interval THEN "p833" ELSE "p812"]
    /\ UNCHANGED <<call, aligned, app, trend, tray, locals, others, fetched, tick0, notes, scen, fq, sq, events>>

\* lines 830-832: the next round of the sleep loop, left when the rounds are
\* used up or self.running is false
PollSleepCheck ==
    /\ pc["poll"] = "p830"
    /\ pc' = [pc EXCEPT !["poll"] = IF i < interval /\ running THEN "p833" ELSE "p812"]
    /\ UNCHANGED <<call, aligned, app, trend, tray, locals, others, fetched, tick0, notes, scen, fq, sq, events>>

\* line 833: time.sleep(1) returns
PollSleep ==
    /\ pc["poll"] = "p833"
    /\ i' = i + 1
    /\ pc' = [pc EXCEPT !["poll"] = "p830"]
    /\ sq' = IF ~running THEN Cap2(sq + 1) ELSE sq
    /\ UNCHANGED <<call, aligned, app, trend, tray, pct_5h, pct_7d, interval, others, fetched, tick0, notes, scen, fq, events>>

\* lines 845-846 and 852-854: the handler of _on_icon_ready shows the message box
PollCrashLog ==
    /\ pc["poll"] = "p845"
    /\ msgbox' = "open"
    /\ pc' = [pc EXCEPT !["poll"] = "p854"]
    /\ UNCHANGED <<call, aligned, app, trend, tray, locals, ppc, mainpc, fetched, tick0, notes, scen, fq, sq, events>>

\* the user closes the box: MessageBoxW returns, crash_log returns, and
\* _on_icon_ready returns; nothing stops the icon
PollCrashBoxClosed ==
    /\ pc["poll"] = "p854"
    /\ msgbox' = "closed"
    /\ pc' = [pc EXCEPT !["poll"] = "done"]
    /\ UNCHANGED <<call, aligned, app, trend, tray, locals, ppc, mainpc, fetched, tick0, notes, scen, fq, sq, events>>

\* ---- the menu (run by the icon's loop on the main thread) ----
\* lines 723-725: on_quit
OnQuit ==
    /\ mainpc = "run" /\ icon_running
    /\ running' = FALSE
    /\ icon_running' = FALSE
    /\ UNCHANGED <<call, aligned, usage_data, profile_data, popup_open, light_taskbar, trend, icon, title, pc, locals,
                   others, fetched, tick0, notes, scen, fq, sq, events>>

\* ---- the main thread (lines 857-862) ----
\* app.run() returns once the icon is stopped, and the script ends
MainRunReturns ==
    /\ mainpc = "run" /\ ~icon_running
    /\ mainpc' = "exited"
    /\ UNCHANGED <<call, aligned, app, trend, tray, pc, locals, ppc, msgbox, fetched, tick0, notes, scen, fq, sq, events>>

\* ---- the program: the poll loop and the quit menu item, over the narrow API ----
PollFetch == UpdateFetch("poll", NarrowApi)

Next ==
    \/ PollFetchProfile \/ PollLoopTest
    \/ PollFetch \/ TickErrorCheck \/ TickErrorRender \/ TickPercentages
    \/ TickNotify \/ TickRender
    \/ TickTrendTest \/ TickTrendRestart \/ TickTrendTestFast \/ TickTrendDecrement \/ TickTrendPrev
    \/ PollBaseInterval \/ PollAlign \/ PollSleepCheck \/ PollSleep
    \/ PollCrashLog \/ PollCrashBoxClosed
    \/ OnQuit \/ MainRunReturns

Spec == Init /\ [][Next]_vars

\* lines 717-718: on_refresh starts a thread that runs update()
OnRefresh ==
    /\ mainpc = "run" /\ icon_running
    /\ refreshes + popups + themes < MaxEvents
    /\ pc["refresh"] = "idle"
    /\ pc' = [pc EXCEPT !["refresh"] = "u757"]
    /\ refreshes' = refreshes + 1
    /\ UNCHANGED <<call, aligned, app, trend, tray, locals, others, fetched, tick0, notes, scen, fq, sq, popups, themes>>

\* lines 712-715: on_show_popup returns if a popup is open, else starts thread k
OnShowPopup(k) ==
    /\ mainpc = "run" /\ icon_running
    /\ refreshes + popups + themes < MaxEvents
    /\ ppc[k] = "idle" /\ \A j \in PopupIds : j < k => ppc[j] # "idle"
    /\ ppc' = IF popup_open THEN ppc ELSE [ppc EXCEPT ![k] = "q728"]
    /\ popups' = popups + 1
    /\ UNCHANGED <<call, aligned, app, trend, tray, pc, locals, mainpc, msgbox, fetched, tick0, notes, scen, fq, sq,
                   refreshes, themes>>

\* ---- _open_popup, run by popup thread k ----
\* line 728: self._popup_open = True
PopupEnter(k) ==
    /\ ppc[k] = "q728"
    /\ popup_open' = TRUE
    /\ ppc' = [ppc EXCEPT ![k] = "q730"]
    /\ UNCHANGED <<call, aligned, running, usage_data, profile_data, light_taskbar, trend, tray, pc, locals, mainpc, msgbox,
                   fetched, tick0, notes, scen, fq, sq, events>>

PopupFetchRecordsTrend(k, api) ==
    /\ ppc[k] = "q730"
    /\ usage_data' \in api
    /\ prev_5h' = Some(Pct(usage_data', "five_hour"))
    /\ ppc' = [ppc EXCEPT ![k] = "q731"]
    /\ UNCHANGED <<call, aligned, running, profile_data, popup_open, light_taskbar, prev_7d, fast_polls_remaining, tray, pc,
                   locals, mainpc, msgbox, fetched, tick0, notes, scen, fq, sq, events>>

\* line 730: self.usage_data = fetch_usage()
PopupFetch(k, api) ==
    /\ ppc[k] = "q730"
    /\ usage_data' \in api
    /\ ppc' = [ppc EXCEPT ![k] = "q731"]
    /\ UNCHANGED <<call, aligned, running, profile_data, popup_open, light_taskbar, trend, tray, pc, locals, mainpc, msgbox,
                   fetched, tick0, notes, scen, fq, sq, events>>

\* lines 731-732: the profile, fetched if none is held
PopupProfile(k) ==
    /\ ppc[k] = "q731"
    /\ IF profile_data = None THEN profile_data' \in {None, Some("profile")} ELSE UNCHANGED profile_data
    /\ ppc' = [ppc EXCEPT ![k] = "q733"]
    /\ UNCHANGED <<call, aligned, running, usage_data, popup_open, light_taskbar, trend, tray, pc, locals, mainpc, msgbox,
                   fetched, tick0, notes, scen, fq, sq, events>>

\* line 733: UsagePopup(self) builds the window and runs its mainloop, or raises
PopupOpen(k) ==
    /\ ppc[k] = "q733"
    /\ ppc' \in {[ppc EXCEPT ![k] = "open"], [ppc EXCEPT ![k] = "q735"]}
    /\ UNCHANGED <<call, aligned, app, trend, tray, pc, locals, mainpc, msgbox, fetched, tick0, notes, scen, fq, sq, events>>

\* the window is closed (Escape, focus lost, the close button): mainloop returns
PopupClosed(k) ==
    /\ ppc[k] = "open"
    /\ ppc' = [ppc EXCEPT ![k] = "q735"]
    /\ UNCHANGED <<call, aligned, app, trend, tray, pc, locals, mainpc, msgbox, fetched, tick0, notes, scen, fq, sq, events>>

\* lines 734-735: finally: self._popup_open = False
PopupFinally(k) ==
    /\ ppc[k] = "q735"
    /\ popup_open' = FALSE
    /\ ppc' = [ppc EXCEPT ![k] = "ended"]
    /\ UNCHANGED <<call, aligned, running, usage_data, profile_data, light_taskbar, trend, tray, pc, locals, mainpc, msgbox,
                   fetched, tick0, notes, scen, fq, sq, events>>

\* ---- lines 737-749: _on_theme_changed, the taskbar theme having changed ----
OnThemeChanged ==
    /\ refreshes + popups + themes < MaxEvents
    /\ pc["poll"] # "p811"
    /\ light_taskbar' = ~light_taskbar
    /\ icon' = IF Raises(usage_data) THEN icon
               ELSE IF HasError(usage_data) THEN ErrorIcon(usage_data, ~light_taskbar)
               ELSE create_icon_image(Pct(usage_data, "five_hour"), Pct(usage_data, "seven_day"), ~light_taskbar)
    /\ themes' = themes + 1
    /\ UNCHANGED <<call, aligned, running, usage_data, profile_data, popup_open, trend, title, icon_running, pc, locals,
                   others, fetched, tick0, notes, scen, fq, sq, refreshes, popups>>

\* ---- one tick of the poll loop racing a manual refresh, popups and a theme change ----
RaceApi ==
    {UsageBody(Entry(Some(960), At(1705)), Entry(Some(500), At(900000)), Absent, Absent),
     ErrorBody("auth_expired", TRUE)}

RacePollFetch == UpdateFetch("poll", RaceApi)
RefreshFetch == UpdateFetch("refresh", RaceApi)
RefreshErrorCheck == UpdateErrorCheck("refresh")
RefreshErrorRender == UpdateErrorRender("refresh")
RefreshPercentages == UpdatePercentages("refresh")
RefreshNotify == UpdateNotify("refresh")
RefreshTrendTest == UpdateTrendTest("refresh")
RefreshTrendRestart == UpdateTrendRestart("refresh")
RefreshTrendTestFast == UpdateTrendTestFast("refresh")
RefreshTrendDecrement == UpdateTrendDecrement("refresh")
RefreshTrendPrev == UpdateTrendPrev("refresh")
RefreshRender == UpdateRender("refresh")

NextRace ==
    \/ PollFetchProfile \/ PollLoopTest
    \/ RacePollFetch \/ TickErrorCheck \/ TickErrorRender \/ TickPercentages
    \/ TickNotify \/ TickRender
    \/ TickTrendTest \/ TickTrendRestart \/ TickTrendTestFast \/ TickTrendDecrement \/ TickTrendPrev
    \/ PollBaseInterval \/ PollAlign
    \/ OnRefresh
    \/ RefreshFetch \/ RefreshErrorCheck \/ RefreshErrorRender \/ RefreshPercentages
    \/ RefreshNotify \/ RefreshRender
    \/ RefreshTrendTest \/ RefreshTrendRestart \/ RefreshTrendTestFast \/ RefreshTrendDecrement
    \/ RefreshTrendPrev
    \/ \E k \in PopupIds : OnShowPopup(k)
    \/ \E k \in PopupIds : PopupEnter(k)
    \/ \E k \in PopupIds : PopupFetch(k, RaceApi)
    \/ \E k \in PopupIds : PopupProfile(k)
    \/ \E k \in PopupIds : PopupOpen(k)
    \/ \E k \in PopupIds : PopupClosed(k)
    \/ \E k \in PopupIds : PopupFinally(k)
    \/ OnThemeChanged

SpecRace == Init /\ [][NextRace]_vars

\* ---- one tick of the poll loop, from every trend state, racing manual refreshes ----
\* a usage tick with no reset near, one with a reset 85.2 s away, an error tick
RefreshApi ==
    {PlainBody(300, 500),
     UsageBody(Entry(Some(300), At(852)), Entry(Some(500), At(900000)), Absent, Absent),
     ErrorBody("connection_error", FALSE)}

RefreshPollFetch == UpdateFetch("poll", RefreshApi)
RefreshThreadFetch == UpdateFetch("refresh", RefreshApi)

NextRefresh ==
    \/ RefreshPollFetch \/ TickErrorCheck \/ TickErrorRender \/ TickPercentages
    \/ TickNotify \/ TickRender
    \/ TickTrendTest \/ TickTrendRestart \/ TickTrendTestFast \/ TickTrendDecrement \/ TickTrendPrev
    \/ PollBaseInterval \/ PollAlign
    \/ OnRefresh
    \/ RefreshThreadFetch \/ RefreshErrorCheck \/ RefreshErrorRender \/ RefreshPercentages
    \/ RefreshNotify \/ RefreshRender
    \/ RefreshTrendTest \/ RefreshTrendRestart \/ RefreshTrendTestFast \/ RefreshTrendDecrement
    \/ RefreshTrendPrev

SpecRefresh == InitTick /\ [][NextRefresh]_vars

\* ---- the poll loop with its sleeps, and manual refreshes in between ----
\* usage ticks at a steady 30 %: no reset near, or a reset 85.2 s away.  No
\* answer is an error and none shows a rise, so lines 760-762 and line 775 are
\* never reached and their steps are left out of NextFollowUp
FollowUpApi ==
    {PlainBody(300, 500),
     UsageBody(Entry(Some(300), At(852)), Entry(Some(500), At(900000)), Absent, Absent)}

FollowUpPollFetch == UpdateFetch("poll", FollowUpApi)
FollowUpRefreshFetch == UpdateFetch("refresh", FollowUpApi)

NextFollowUp ==
    \/ PollFetchProfile \/ PollLoopTest
    \/ FollowUpPollFetch \/ TickErrorCheck \/ TickPercentages
    \/ TickNotify \/ TickRender
    \/ TickTrendTest \/ TickTrendTestFast \/ TickTrendDecrement \/ TickTrendPrev
    \/ PollBaseInterval \/ PollAlign \/ PollSleepCheck \/ PollSleep
    \/ OnRefresh
    \/ FollowUpRefreshFetch \/ RefreshErrorCheck \/ RefreshPercentages
    \/ RefreshNotify \/ RefreshRender
    \/ RefreshTrendTest \/ RefreshTrendTestFast \/ RefreshTrendDecrement
    \/ RefreshTrendPrev

SpecFollowUp == Init /\ [][NextFollowUp]_vars

\* ---- fetch_usage called once, over every credentials file and network outcome ----
InitFetch ==
    /\ InitApp
    /\ \E c \in CredentialShapes, n \in NetOutcomes :
         call = [op |-> "fetch_usage", creds |-> c, net |-> n, out |-> None]

\* the call returns or raises
FetchUsage ==
    /\ call.op = "fetch_usage" /\ call.out = None
    /\ call' = [call EXCEPT !.out = Some(fetch_usage(call.creds, call.net))]
    /\ UNCHANGED <<app, trend, tray, pc, locals, others, hist, events>>

NextFetch == FetchUsage

SpecFetch == InitFetch /\ [][NextFetch]_vars

\* ---- create_icon_image called once, over every percentage in tenths ----
\* pct_5h from -5 % to 105 % in tenths; pct_7d at chosen values
IconPct5h == (0 - 50)..1050
IconPct7d == {0 - 20, 0, 370, 505, 1000, 1200}

InitIcon ==
    /\ InitApp
    /\ \E p5 \in IconPct5h, p7 \in IconPct7d, light \in BOOLEAN :
         call = [op |-> "create_icon_image", pct_5h |-> p5, pct_7d |-> p7, light |-> light, out |-> None]

CreateIconImage ==
    /\ call.op = "create_icon_image" /\ call.out = None
    /\ call' = [call EXCEPT !.out = Some(create_icon_image(call.pct_5h, call.pct_7d, call.light))]
    /\ UNCHANGED <<app, trend, tray, pc, locals, others, hist, events>>

NextIcon == CreateIconImage

SpecIcon == InitIcon /\ [][NextIcon]_vars

\* ---- elapsed_pct called again and again while the clock advances ----
ElapsedResets == {NoReset, BadReset} \cup {At(t) : t \in {0, 3, 6, 9, 15}}
ElapsedPeriods == {0 - 3, 0, 4, 7}

InitElapsed ==
    /\ InitApp
    /\ \E r \in ElapsedResets, ps \in ElapsedPeriods, n \in 0..3 :
         call = [op |-> "elapsed_pct", resets_at |-> r, period_seconds |-> ps, now |-> n,
                 done |-> FALSE, out |-> None, last |-> None]

\* time passes
ElapsedClock ==
    /\ call.op = "elapsed_pct" /\ call.now < MaxClock
    /\ \E d \in 1..3 : call' = [call EXCEPT !.now = call.now + d]
    /\ UNCHANGED <<app, trend, tray, pc, locals, others, hist, events>>

\* a call at the present reading of the clock; last keeps the result before
ElapsedPct ==
    /\ call.op = "elapsed_pct"
    /\ call' = [call EXCEPT !.done = TRUE,
                            !.out = elapsed_pct(call.resets_at, call.period_seconds, call.now),
                            !.last = call.out]
    /\ UNCHANGED <<app, trend, tray, pc, locals, others, hist, events>>

NextElapsed == ElapsedClock \/ ElapsedPct

SpecElapsed == InitElapsed /\ [][NextElapsed]_vars

\* ---- the claims about one tick (SpecTick) ----
\* the tick's snapshot as the claims read it: a missing utilization counts as 0
New5h == LET e == fetched["poll"].five_hour
         IN  IF e # Absent /\ Val(e).utilization # None THEN Val(Val(e).utilization) ELSE 0
New7d == LET e == fetched["poll"].seven_day
         IN  IF e # Absent /\ Val(e).utilization # None THEN Val(Val(e).utilization) ELSE 0
UsageTick == fetched["poll"].kind = "usage"
ErrorTick == fetched["poll"].kind = "error"

\* fast_polls_remaining after the trend update, as the claims state it
FastAfterTrend ==
    IF tick0.prev_5h # None /\ New5h > Val(tick0.prev_5h) THEN POLL_FAST_EXTRA + 1
    ELSE IF tick0.fast > 0 THEN tick0.fast - 1
    ELSE 0

\* the minimum positive seconds-until-reset over the known periods, in tenths
MinPositiveReset ==
    LET Rs == {Val(fetched["poll"][k]).resets_at.ds :
                k \in {k \in {"five_hour", "seven_day", "seven_day_sonnet", "seven_day_opus"} :
                         /\ fetched["poll"][k] # Absent
                         /\ Val(fetched["poll"][k]).resets_at.tag = "at"
                         /\ Val(fetched["poll"][k]).resets_at.ds > 0}}
    IN  IF Rs = {} THEN None ELSE Some(CHOOSE m \in Rs : \A x \in Rs : m <= x)

\* C1: on a tick whose fetched snapshot is an error record the poll loop selects
\* POLL_ERROR and the trend state is what it was before the tick
C1_ErrorTickKeepsTrend ==
    ErrorTick =>
        /\ TrendNow = tick0
        /\ pc["poll"] = "p830" => interval = POLL_ERROR

C1_Witness ==
    /\ pc["poll"] = "p830" /\ ErrorTick /\ fetched["poll"].auth_error
    /\ interval = POLL_ERROR /\ fast_polls_remaining = 2 /\ prev_5h = Some(955)

\* C2: on a non-error tick, after the trend update: fast_polls_remaining is
\* POLL_FAST_EXTRA + 1 if pct_5h rose above the stored previous value, otherwise
\* one less than before or still 0; the stored previous values are the new ones
C2_TrendUpdate ==
    (UsageTick /\ pc["poll"] \in {"u781", "p814", "p825"}) =>
        /\ fast_polls_remaining = FastAfterTrend
        /\ prev_5h = Some(New5h)
        /\ prev_7d = Some(New7d)

C2_Witness ==
    /\ pc["poll"] = "u781" /\ UsageTick
    /\ tick0.prev_5h = Some(800) /\ tick0.fast = 0
    /\ prev_5h = Some(955) /\ fast_polls_remaining = POLL_FAST_EXTRA + 1
    /\ fetched["poll"].seven_day # Absent /\ Val(fetched["poll"].seven_day).utilization = None
    /\ prev_7d = Some(0)

\* C3 as amended: on a non-error tick, with base = POLL_FAST if fast polls
\* remain after the trend update, else POLL_INTERVAL, and r the minimum positive
\* seconds-until-reset: if r + 5 <= 1.5 * base the interval is
\* max(floor(r) + 5, POLL_FAST) and fast_polls_remaining is raised to at least
\* 2, otherwise the interval is base and fast_polls_remaining is not changed
C3_IntervalSelection ==
    (UsageTick /\ pc["poll"] = "p830") =>
        LET base == IF FastAfterTrend > 0 THEN POLL_FAST ELSE POLL_INTERVAL
            r == MinPositiveReset
        IN  IF r # None /\ Val(r) + 50 <= 15 * base
            THEN /\ interval = Max(Val(r) \div 10 + 5, POLL_FAST)
                 /\ fast_polls_remaining = Max(FastAfterTrend, 2)
            ELSE /\ interval = base
                 /\ fast_polls_remaining = FastAfterTrend

\* r = 170.5 s: 175.5 <= 180, the interval is 175 and the fast polls go from 0 to 2
C3_Witness ==
    /\ pc["poll"] = "p830" /\ UsageTick
    /\ MinPositiveReset = Some(1705)
    /\ tick0.fast = 0 /\ interval = 175 /\ fast_polls_remaining = 2

\* C3 as stated: the aligned interval is max(r + 5, POLL_FAST), r not truncated
C3_AsStated ==
    (UsageTick /\ pc["poll"] = "p830") =>
        LET base == IF FastAfterTrend > 0 THEN POLL_FAST ELSE POLL_INTERVAL
            r == MinPositiveReset
        IN  IF r # None /\ Val(r) + 50 <= 15 * base
            THEN /\ 10 * interval = Max(Val(r) + 50, 10 * POLL_FAST)
                 /\ fast_polls_remaining = Max(FastAfterTrend, 2)
            ELSE /\ interval = base
                 /\ fast_polls_remaining = FastAfterTrend

\* C6: on a non-error tick the 5h notification is emitted exactly when the
\* previous pct_5h was known and > 95, the new pct_5h is lower and the new
\* pct_7d < 99; the 7-day one exactly when the previous pct_7d was known and
\* > 98, the new pct_7d is lower and the new pct_5h < 99; and the step that
\* emits changes no scheduler state
C6_NotifyRule ==
    (UsageTick /\ pc["poll"] \in {"u774", "u775", "u776", "u777", "u778", "u781", "p814", "p825", "p830"}) =>
        /\ "5h" \in notes["poll"] <=>
              (/\ tick0.prev_5h # None /\ Val(tick0.prev_5h) > 950
               /\ New5h < Val(tick0.prev_5h) /\ New7d < 990)
        /\ "7d" \in notes["poll"] <=>
              (/\ tick0.prev_7d # None /\ Val(tick0.prev_7d) > 980
               /\ New7d < Val(tick0.prev_7d) /\ New5h < 990)

C6_Notifications ==
    /\ []C6_NotifyRule
    /\ [][notes' # notes => UNCHANGED <<trend, interval, i, running>>]_vars

C6_Witness ==
    /\ pc["poll"] = "u774" /\ UsageTick
    /\ notes["poll"] = {"5h", "7d"}
    /\ TrendNow = tick0

\* C7 as amended: with previous pct_5h = 95.5 and new pct_5h = 80, a new
\* pct_7d = 70 emits a reset notification; a new pct_7d = 99.5 emits no 5h
\* notification, and none at all unless the previous pct_7d was above 99.5
C7_Example ==
    (/\ UsageTick /\ pc["poll"] \in {"u774", "u775", "u776", "u777", "u778", "u781", "p814", "p825", "p830"}
     /\ tick0.prev_5h = Some(955) /\ New5h = 800) =>
        /\ New7d = 700 => "5h" \in notes["poll"]
        /\ New7d = 995 =>
              /\ "5h" \notin notes["poll"]
              /\ notes["poll"] # {} <=> (tick0.prev_7d # None /\ Val(tick0.prev_7d) > 995)

\* previous pct_7d = 100: the 7-day rule fires although the new pct_7d is 99.5
C7_Witness ==
    /\ pc["poll"] = "u774" /\ UsageTick
    /\ tick0.prev_5h = Some(955) /\ New5h = 800 /\ New7d = 995
    /\ tick0.prev_7d = Some(1000) /\ notes["poll"] = {"7d"}

\* C7 as stated: with new pct_7d = 99.5 no notification at all, whatever the
\* previous pct_7d was
C7_AsStated ==
    (/\ UsageTick /\ pc["poll"] \in {"u774", "u775", "u776", "u777", "u778", "u781", "p814", "p825", "p830"}
     /\ tick0.prev_5h = Some(955) /\ New5h = 800) =>
        /\ New7d = 700 => notes["poll"] # {}
        /\ New7d = 995 => notes["poll"] = {}

\* ---- the claims about the running poll loop (Spec) ----
Sleeping == pc["poll"] \in {"p830", "p833"}

\* C4 as amended: after ticks showing pct_5h 10, 20, 30 with no reset imminent
\* and no error, the tick of 30 and the first POLL_FAST_EXTRA flat ticks after
\* it select POLL_FAST (POLL_FAST_EXTRA + 1 fast intervals in all), and every
\* later flat tick selects POLL_INTERVAL
C4_FastPollsAfterIncrease ==
    Sleeping =>
        /\ scen \in {"s20", "s30", "flat1", "flat2"} => interval = POLL_FAST
        /\ scen \in {"flat3", "flat4"} => interval = POLL_INTERVAL

C4_Witness ==
    /\ Sleeping /\ scen = "flat3" /\ interval = POLL_INTERVAL
    /\ fast_polls_remaining = 0 /\ prev_5h = Some(300) /\ i = POLL_INTERVAL

\* C4 as stated: POLL_FAST for POLL_FAST_EXTRA + 1 flat ticks after the last
\* increase, POLL_INTERVAL on every later one
C4_AsStated ==
    Sleeping =>
        /\ scen \in {"flat1", "flat2", "flat3"} => interval = POLL_FAST
        /\ scen = "flat4" => interval = POLL_INTERVAL

\* C9 as amended: once on_quit has set running to false the poll loop starts at
\* most one more fetch (the one it had passed the loop test for, or the profile
\* fetch before the loop), finishes at most one more 1-second sleep, and leaves
\* at its next loop test
C9_Shutdown ==
    /\ [](~running => fq <= 1 /\ sq <= 1 /\ fq + sq <= 1)
    /\ [][(~running /\ pc["poll"] = "p812") => pc'["poll"] \in {"p812", "done"}]_vars
    /\ [][(~running /\ pc["poll"] = "p830") => pc'["poll"] \in {"p830", "p812"}]_vars

\* the quit came while the loop slept for the long interval
C9_Witness ==
    /\ ~running /\ sq = 1 /\ fq = 0 /\ pc["poll"] = "done"
    /\ interval = POLL_INTERVAL /\ i < POLL_INTERVAL

\* C9 as stated: after the shutdown signal no further fetch starts
C9_AsStated == ~running => fq = 0 /\ sq <= 1

\* C10 as stated: after the crash message box the tray icon and the poll loop
\* are no longer running and the process has exited
C10_AsStated ==
    msgbox = "closed" => (~icon_running /\ pc["poll"] = "done" /\ mainpc = "exited")

\* ---- the claims about concurrent threads (SpecRace) ----
\* C5 as amended: the trend state is written only at lines 775-779 of update(),
\* by whichever thread runs it (the poll thread or a manual refresh's thread),
\* and at line 828 of the poll loop; no popup thread and no theme-change
\* callback ever modifies it
C5_TrendWriters ==
    [][trend' # trend =>
          \/ \E t \in UThreads : pc[t] \in {"u775", "u777", "u778"} /\ pc'[t] # pc[t]
          \/ pc["poll"] = "p825" /\ pc'["poll"] = "p830"]_vars

\* a manual refresh has written the trend state before the poll loop's first
\* tick, with a theme change in between
C5_Witness ==
    /\ pc["refresh"] = "u781" /\ pc["poll"] = "p812"
    /\ prev_5h = Some(960) /\ prev_7d = Some(500)
    /\ refreshes = 1 /\ themes = 1

\* C5 as stated: only the poll loop's own steps write the trend state
C5_AsStated == [][trend' # trend => pc'["poll"] # pc["poll"]]_vars

\* C8 as stated: the shared usage state is one snapshot some fetch returned, and
\* an update's error check, percentages and the interval chosen after it come
\* from the snapshot this update fetched
C8_AsStated ==
    /\ usage_data \in RaceApi \cup {EmptyBody}
    /\ \A t \in UThreads :
         /\ pc[t] = "u760" => HasError(fetched[t])
         /\ pc[t] = "u764" => ~HasError(fetched[t])
         /\ pc[t] \in {"u768", "u774", "u775", "u776", "u777", "u778", "u781"} =>
               /\ pct_5h[t] = Pct(fetched[t], "five_hour")
               /\ pct_7d[t] = Pct(fetched[t], "seven_day")
    /\ (pc["poll"] = "p830" /\ HasError(fetched["poll"])) => interval = POLL_ERROR

\* ---- the claims about fetch_usage (SpecFetch) ----
\* the token the credentials file holds, if it holds one
TokenAbsent == call.creds # "token"

\* C11 as stated: fetch_usage never raises, and: no token gives the no-token
\* record with no network call made; a connection failure the connection-error
\* record; status 401 an error record with auth_error; any other failure status
\* an HTTP-error record with that status code and without auth_error; success
\* the response body
C11_AsStated ==
    (call.op = "fetch_usage" /\ call.out # None) =>
        LET out == Val(call.out)
            net == call.net
        IN  /\ ~out.raised
            /\ TokenAbsent => out.body = ErrorBody("no_token", FALSE) /\ out.requests = 0
            /\ (~TokenAbsent /\ net.kind = "connection_error") =>
                  out.body = ErrorBody("connection_error", FALSE)
            /\ (~TokenAbsent /\ net.kind = "response" /\ net.code = 401) =>
                  HasError(out.body) /\ out.body.auth_error
            /\ (~TokenAbsent /\ net.kind = "response" /\ net.code >= 400 /\ net.code # 401) =>
                  out.body = ErrorBody("http_error", FALSE) /\ out.code = net.code
            /\ (~TokenAbsent /\ net.kind = "response" /\ net.code < 400 /\ net.json) =>
                  out.body = OkBody

\* ---- the claims about the trend state under manual refreshes (SpecRefresh) ----
\* C12 as stated: fast_polls_remaining is a non-negative integer, at most
\* POLL_FAST_EXTRA + 1, in every reachable state
C12_AsStated == fast_polls_remaining \in 0..(POLL_FAST_EXTRA + 1)

\* ---- the claims about create_icon_image (SpecIcon) ----
IconDrawn == call.op = "create_icon_image" /\ call.out # None

\* C13: the top text of the icon is the cross when pct_5h >= 100, the letter
\* when pct_5h <= 50, and between them the numeral of pct_5h as a whole number
\* (60 gives "60"), whatever pct_7d and the theme are
C13_TopGlyph ==
    IconDrawn =>
        LET p == call.pct_5h
            text == Val(call.out).text
        IN  /\ p >= 1000 => text = "X"
            /\ p <= 500 => text = "C"
            /\ (p > 500 /\ p < 1000) =>
                  \E n \in 50..100 : text = ToString(n) /\ 10 * n - 5 <= p /\ p <= 10 * n + 5
            /\ p = 600 => text = "60"
            /\ p = 100 => text = "C"

C13_Witness ==
    /\ IconDrawn /\ call.pct_5h = 600 /\ call.pct_7d = 1000 /\ call.light
    /\ Val(call.out).text = "60"

\* C14: for pct in [0,100] each bar has exactly floor(64 * pct / 100) filled
\* pixels of width (37 gives 23), and the filled width is within 0..64 for
\* every input
C14_FloorFill ==
    IconDrawn =>
        LET out == Val(call.out)
        IN  /\ call.pct_5h \in 0..1000 => out.bar1 = (64 * call.pct_5h) \div 1000
            /\ call.pct_7d \in 0..1000 => out.bar2 = (64 * call.pct_7d) \div 1000
            /\ call.pct_5h = 370 => out.bar1 = 23
            /\ out.bar1 \in 0..64 /\ out.bar2 \in 0..64

C14_Witness ==
    /\ IconDrawn /\ call.pct_5h = 370 /\ Val(call.out).bar1 = 23
    /\ call.pct_7d = 1200 /\ Val(call.out).bar2 = 64

\* round(64 * pct / 100) for pct = p / 10, a tie going to the even number
Round64(p) ==
    LET q == (64 * p) \div 1000
        r == (64 * p) % 1000
    IN  IF r < 500 THEN q
        ELSE IF r > 500 THEN q + 1
        ELSE IF q % 2 = 0 THEN q ELSE q + 1

\* C15 as amended: for pct in [0,100] each bar's filled width w is
\* canvas_width * pct / 100 truncated to whole pixels: w <= 64 * pct / 100 <
\* w + 1, which is round(64 * pct / 100) when the fraction is below 1/2 and one
\* pixel less when it is above
C15_TruncatedFill ==
    IconDrawn =>
        \A b \in {<<call.pct_5h, Val(call.out).bar1>>, <<call.pct_7d, Val(call.out).bar2>>} :
            b[1] \in 0..1000 =>
                /\ 1000 * b[2] <= 64 * b[1] /\ 64 * b[1] < 1000 * (b[2] + 1)
                /\ (64 * b[1]) % 1000 < 500 => b[2] = Round64(b[1])
                /\ (64 * b[1]) % 1000 > 500 => b[2] = Round64(b[1]) - 1

\* 64 * 0.37 = 23.68: 23 pixels are filled, round() gives 24
C15_Witness ==
    /\ IconDrawn /\ call.pct_7d = 370 /\ Val(call.out).bar2 = 23 /\ Round64(370) = 24
    /\ call.pct_5h = 250 /\ Val(call.out).bar1 = 16

\* C15 as stated: each bar's filled width is round(64 * pct / 100)
C15_AsStated ==
    IconDrawn =>
        /\ call.pct_5h \in 0..1000 => Val(call.out).bar1 = Round64(call.pct_5h)
        /\ call.pct_7d \in 0..1000 => Val(call.out).bar2 = Round64(call.pct_7d)

\* ---- the claims about elapsed_pct (SpecElapsed) ----
ElapsedCalled == call.op = "elapsed_pct" /\ call.done

\* C16: elapsed_pct returns unavailable whenever period_seconds <= 0 or the
\* timestamp is empty; otherwise, for a fixed period and reset instant, each
\* result is within [0,100] and no smaller than the result of the call before
C16_ElapsedPct ==
    ElapsedCalled =>
        /\ (call.period_seconds <= 0 \/ call.resets_at = NoReset) => call.out = None
        /\ (call.period_seconds > 0 /\ call.resets_at.tag = "at") =>
              /\ call.out # None
              /\ 0 <= Val(call.out) /\ Val(call.out) <= 100 * call.period_seconds
              /\ call.last # None => Val(call.last) <= Val(call.out)

\* 25 % elapsed at the call before, 100 % now that the reset instant has passed
C16_Witness ==
    /\ ElapsedCalled /\ call.period_seconds = 4 /\ call.resets_at = At(6)
    /\ call.last = Some(100) /\ call.out = Some(400) /\ call.now > 6

\* ---- the claims about the poll after an aligned reset (SpecFollowUp) ----
\* C17 as stated: when a tick applied the reset alignment, the next poll starts
\* after the reset instant and at least POLL_FAST seconds after that tick, and
\* if it is a non-error tick its base interval is POLL_FAST, fast polls still
\* remaining after its trend update
C17_AsStated ==
    /\ (pc["poll"] = "u757" /\ aligned # None) =>
          /\ i = interval
          /\ 10 * i > Val(aligned)
          /\ i >= POLL_FAST
    /\ (pc["poll"] = "p825" /\ aligned # None /\ fetched["poll"].kind = "usage") =>
          /\ interval = POLL_FAST
          /\ fast_polls_remaining > 0

\* ---- the claims about the popup (SpecRace) ----
\* the popup threads that have been started and have not ended
LivePopups == {k \in PopupIds : ppc[k] \notin {"idle", "ended"}}

\* C18 as stated: at most one popup thread is alive, so at most one popup is
\* open, whatever the timing of the show-popup requests; and the popup-open
\* flag is false once the popup has closed or its opening has failed
C18_AsStated ==
    /\ Cardinality(LivePopups) <= 1
    /\ Cardinality({k \in PopupIds : ppc[k] = "open"}) <= 1
    /\ LivePopups = {} => ~popup_open

====
